---- MODULE Spec2Model ----
(***************************************************************************)
(* Model of GitpodTaskContribution (gitpod-task-contribution.ts): the      *)
(* registry of task terminals, the promise chain that serialises the       *)
(* bootstrap pass (initTerminals) and the push passes (updateTerminals),   *)
(* and the terminal event handlers installed by init().                    *)
(*                                                                         *)
(* A pass is a coroutine: its position is pc[p].  The code between two     *)
(* awaits runs to completion on the event loop, so user events and push    *)
(* notifications are taken only while no pass is inside such a segment     *)
(* (Quiescent).  Every awaited collaborator call may succeed or fail.      *)
(***************************************************************************)
EXTENDS Integers, Sequences, FiniteSets, TLC

\* ---- bounds -------------------------------------------------------------
MaxPushes == 2
MaxDisturbances == 1

\* the tasks of the workspace, in the order the backend lists them
TaskSeq == <<"t1", "t2">>

TaskIds == {TaskSeq[i] : i \in 1 .. Len(TaskSeq)}
States == {"OPENING", "RUNNING", "CLOSED"}
NoRemote == ""
Passes == 0 .. MaxPushes

\* task.terminal of a task: the alias of its remote terminal
RemoteOf(t) == "r-" \o t

\* ---- GitpodTaskTerminalWidget namespace ---------------------------------
idPrefix == "gitpod-task-terminal"

toTerminalId(id) == idPrefix \o ":" \o id

is(terminal) == terminal.kind = "gitpod-task"

TerminalIds == {toTerminalId(t) : t \in TaskIds}

\* ---- Task Snapshot Source -------------------------------------------------
\* The backend keeps one authoritative list of tasks, in a fixed order.  A
\* task not yet known is ABSENT; its state only moves forward.  getTasks and
\* every push carry the complete current list.
Rank(s) == CASE s = "ABSENT" -> 0 [] s = "OPENING" -> 1 [] s = "RUNNING" -> 2
             [] s = "CLOSED" -> 3

ServerStates == {"ABSENT"} \cup States

\* a GitpodTask; task.terminal is the alias of the remote terminal of a running task
Task(t, s) ==
    [id |-> t, state |-> s, terminal |-> IF s = "RUNNING" THEN RemoteOf(t) ELSE NoRemote]

RECURSIVE SnapshotFrom(_, _)
SnapshotFrom(srv, i) ==
    IF i > Len(TaskSeq) THEN <<>>
    ELSE IF srv[TaskSeq[i]] = "ABSENT" THEN SnapshotFrom(srv, i + 1)
    ELSE <<Task(TaskSeq[i], srv[TaskSeq[i]])>> \o SnapshotFrom(srv, i + 1)

Snapshot(srv) == SnapshotFrom(srv, 1)

VARIABLES
    server,         \* the backend's task states
    terms,          \* every terminal widget ever created, by handle 1..Len
    taskTerminals,  \* the registry: terminal id -> handle, 0 when absent
    pendingUpdates, \* the tail of the promise chain: -1 initial, else a pass
    status,         \* promise of pass p: unsubmitted, queued, running, fulfilled, rejected
    prev,           \* the promise pass p was chained on with .then
    pc,             \* position of pass p inside its body
    tasks,          \* the task list pass p works on
    idx,            \* loop index of pass p (1-based)
    cur,            \* `terminal` local of pass p across an await
    ref,            \* `ref` local of initTerminals
    body,           \* the method pass p runs: "init" (initTerminals) or "update"
    early,          \* history: task reported CLOSED by push p while its terminal was being created
    nFail,          \* history: number of collaborator calls that failed
    nClose,         \* history: number of widgets closed or disposed from outside
    failed          \* history: the calls that failed, as <<call, task id, pass, task state>>

vars == <<server, terms, taskTerminals, pendingUpdates, status, prev, pc, tasks, idx,
          cur, ref, body, early, nFail, nClose, failed>>

passVars == <<pendingUpdates, status, prev, pc, tasks, idx, cur, ref, body, early>>

Handles == 1 .. Len(terms)

\* positions left without returning to the event loop: the loops between
\* awaits, and the continuations that run as promise jobs
SyncPcs == {"initLoop", "updLoop", "awaitUpd", "done", "threw"}

\* no pass is in the middle of a synchronous segment
Idle == \A p \in Passes : pc[p] \notin SyncPcs

\* the promise pass q was chained on is fulfilled (-1: Promise.resolve())
Settled(q) == q = -1 \/ status[q] = "fulfilled"

\* the event loop takes the next event: no pass is running synchronously and
\* no then-callback is ready to run
Quiescent ==
    /\ Idle
    /\ \A p \in Passes : ~(status[p] = "queued" /\ Settled(prev[p]))

Live(T) == {h \in 1 .. Len(T) : ~T[h].disposed}

Restored == {h \in Handles : terms[h].createdBy = -1}

\* restored terminals, failed calls and outside closes are bounded together
MayDisturb == Cardinality(Restored) + nFail + nClose < MaxDisturbances

\* ---- terminal widgets ----------------------------------------------------
NewWidget(id, kind, valid, by) ==
    [id |-> id, kind |-> kind, disposed |-> FALSE, remoteTerminal |-> NoRemote,
     valid |-> valid, starts |-> 0, cmds |-> <<>>, sets |-> 0,
     closeReq |-> NoRemote, diag |-> FALSE, disposedBy |-> "none",
     createdBy |-> by, placed |-> FALSE, anchor |-> 0]

\* init(): onDidCreateTerminal handler, line 49
onDidCreateTerminal(reg, T, h) ==
    IF is(T[h]) THEN [reg EXCEPT ![T[h].id] = h] ELSE reg

\* init(): onDidDispose handler, lines 50-52
onDidDisposeM(reg, T, h) == reg

onDidDispose(reg, T, h) ==
    IF is(T[h]) THEN [reg EXCEPT ![T[h].id] = 0] ELSE reg

\* init(): onTerminalDidClose handler, lines 53-59
onTerminalDidCloseM(T, h) ==
    IF ~is(T[h]) THEN T
    ELSE [T EXCEPT ![h].closeReq = IF T[h].remoteTerminal # NoRemote
                                   THEN T[h].remoteTerminal ELSE "undefined"]

onTerminalDidClose(T, h) ==
    IF ~is(T[h]) THEN T
    ELSE IF T[h].remoteTerminal # NoRemote
         THEN [T EXCEPT ![h].closeReq = T[h].remoteTerminal]
         ELSE [T EXCEPT ![h].diag = TRUE]

\* the widget marks itself disposed (dispose() is idempotent)
MarkDisposed(T, h, by) ==
    IF T[h].disposed THEN T
    ELSE [T EXCEPT ![h].disposed = TRUE, ![h].disposedBy = by]

\* terminal.dispose(): fires the disposal event only
WidgetDispose(h, by) ==
    /\ terms' = MarkDisposed(terms, h, by)
    /\ taskTerminals' = IF terms[h].disposed THEN taskTerminals
                        ELSE onDidDispose(taskTerminals, terms, h)

\* the user closes the widget: the close event fires, then the disposal event
WidgetClose(h, by) ==
    /\ terms' = MarkDisposed(onTerminalDidClose(terms, h), h, by)
    /\ taskTerminals' = onDidDispose(taskTerminals, terms, h)

Init ==
    /\ server \in [TaskIds -> ServerStates]
    /\ terms = <<>>
    /\ taskTerminals = [i \in TerminalIds |-> 0]
    /\ pendingUpdates = -1
    /\ status = [p \in Passes |-> "unsubmitted"]
    /\ prev = [p \in Passes |-> -1]
    /\ pc = [p \in Passes |-> "idle"]
    /\ tasks = [p \in Passes |-> <<>>]
    /\ idx = [p \in Passes |-> 0]
    /\ cur = [p \in Passes |-> 0]
    /\ ref = [p \in Passes |-> 0]
    /\ body = [p \in Passes |-> "none"]
    /\ early = [p \in Passes |-> "none"]
    /\ nFail = 0
    /\ nClose = 0
    /\ failed = {}

\* ---- environment ---------------------------------------------------------
\* layout restoration recreates a task terminal of a previous session
\* before onDidInitializeLayout; its backing terminal id may be stale
RestoreTerminal(i, valid) ==
    /\ status[0] = "unsubmitted"
    /\ MayDisturb
    /\ \A h \in Handles : \A j \in i .. Len(TaskSeq) :
            terms[h].id # toTerminalId(TaskSeq[j])
    /\ terms' = Append(terms, NewWidget(toTerminalId(TaskSeq[i]), "gitpod-task", valid, -1))
    /\ taskTerminals' = onDidCreateTerminal(taskTerminals, terms', Len(terms'))
    /\ UNCHANGED <<server, passVars, nFail, nClose, failed>>

UserClose(h) ==
    /\ status[0] # "unsubmitted"
    /\ Quiescent
    /\ h \in Live(terms)
    /\ is(terms[h])
    /\ WidgetClose(h, "user")
    /\ MayDisturb
    /\ nClose' = nClose + 1
    /\ UNCHANGED <<server, passVars, nFail, failed>>

\* the widget is disposed for another reason (error, process crash)
ExternalDispose(h) ==
    /\ status[0] # "unsubmitted"
    /\ Quiescent
    /\ h \in Live(terms)
    /\ is(terms[h])
    /\ WidgetDispose(h, "external")
    /\ MayDisturb
    /\ nClose' = nClose + 1
    /\ UNCHANGED <<server, passVars, nFail, failed>>

\* ---- the promise chain (Update Scheduler) ---------------------------------
\* the method a pass runs: line 65 (bootstrap) and line 68 (push)
PassBodyM(p) == "init"

PassBody(p) == IF p = 0 THEN "init" ELSE "update"

\* line 68: the then-promise of pass p becomes the new tail
NewTailM(p) == pendingUpdates

NewTail(p) == p

\* line 65: .catch turns a rejection of initTerminals into a fulfilment
SettleStatusM(p) == IF pc[p] = "threw" THEN "rejected" ELSE "fulfilled"

SettleStatus(p) ==
    IF pc[p] = "threw" /\ p # 0 THEN "rejected" ELSE "fulfilled"

\* lines 64-71; initTerminals runs synchronously up to `await getTasks()`
OnDidInitializeLayout ==
    /\ status[0] = "unsubmitted"
    /\ status' = [status EXCEPT ![0] = "running"]
    /\ body' = [body EXCEPT ![0] = PassBody(0)]
    /\ pc' = [pc EXCEPT ![0] = "getTasks"]
    /\ pendingUpdates' = 0
    /\ UNCHANGED <<nClose, server, terms, taskTerminals, prev, tasks, idx, cur, ref, early, nFail, failed>>

NextPush ==
    IF \E p \in 1 .. MaxPushes : status[p] = "unsubmitted"
    THEN CHOOSE p \in 1 .. MaxPushes :
            /\ status[p] = "unsubmitted"
            /\ \A q \in 1 .. MaxPushes : status[q] = "unsubmitted" => p <= q
    ELSE 0

\* the task whose terminal bootstrap is creating (newTerminal or start in
\* flight), when the arriving list reports that task CLOSED
CreationInFlight(list) ==
    IF /\ pc[0] \in {"awaitNew", "awaitStart"}
       /\ \E i \in 1 .. Len(list) :
            list[i].id = tasks[0][idx[0]].id /\ list[i].state = "CLOSED"
    THEN tasks[0][idx[0]].id
    ELSE "none"

\* lines 67-68: a push notification is chained behind the current tail
OnDidChange(t, s) ==
    /\ status[0] # "unsubmitted"
    /\ Quiescent
    /\ NextPush # 0
    /\ Rank(s) > Rank(server[t])
    /\ server' = [server EXCEPT ![t] = s]
    /\ LET p == NextPush IN
        /\ status' = [status EXCEPT ![p] = "queued"]
        /\ tasks' = [tasks EXCEPT ![p] = Snapshot(server')]
        /\ prev' = [prev EXCEPT ![p] = pendingUpdates]
        /\ pendingUpdates' = NewTail(p)
        /\ early' = [early EXCEPT ![p] = CreationInFlight(tasks'[p])]
    /\ UNCHANGED <<nClose, terms, taskTerminals, pc, idx, cur, ref, body, nFail, failed>>

\* the then-callback of pass p runs once the promise it was chained on is fulfilled
StartPass(p) ==
    /\ p # 0
    /\ status[p] = "queued"
    /\ Settled(prev[p])
    /\ Idle
    /\ status' = [status EXCEPT ![p] = "running"]
    /\ body' = [body EXCEPT ![p] = PassBody(p)]
    /\ pc' = [pc EXCEPT ![p] = IF PassBody(p) = "init" THEN "getTasks" ELSE "updLoop"]
    /\ idx' = [idx EXCEPT ![p] = 1]
    /\ UNCHANGED <<nClose, server, terms, taskTerminals, pendingUpdates, prev, tasks, cur, ref,
                   early, nFail, failed>>

\* the promise of pass p settles
Settle(p) ==
    /\ status[p] = "running"
    /\ pc[p] \in {"done", "threw"}
    /\ status' = [status EXCEPT ![p] = SettleStatus(p)]
    /\ pc' = [pc EXCEPT ![p] = "settled"]
    /\ tasks' = [tasks EXCEPT ![p] = <<>>]
    /\ idx' = [idx EXCEPT ![p] = 0]
    /\ cur' = [cur EXCEPT ![p] = 0]
    /\ ref' = [ref EXCEPT ![p] = 0]
    /\ early' = [early EXCEPT ![p] = "none"]
    /\ UNCHANGED <<nClose, server, terms, taskTerminals, pendingUpdates, prev, body, nFail, failed>>

\* a collaborator call fails
Fails(p, call, task) ==
    /\ MayDisturb
    /\ nFail' = nFail + 1
    /\ failed' = failed \cup {<<call, task.id, p, task.state>>}

\* a call made for no task: getTasks, the fallback newTerminal
NoTask == [id |-> "", state |-> ""]

\* ---- initTerminals, lines 73-114 ------------------------------------------
Advance(p) == idx' = [idx EXCEPT ![p] = idx[p] + 1]

\* line 74: the snapshot arrives
GetTasksOk(p) ==
    /\ pc[p] = "getTasks"
    /\ Quiescent
    /\ tasks' = [tasks EXCEPT ![p] = Snapshot(server)]
    /\ idx' = [idx EXCEPT ![p] = 1]
    /\ ref' = [ref EXCEPT ![p] = 0]
    /\ pc' = [pc EXCEPT ![p] = "initLoop"]
    /\ UNCHANGED <<nClose, server, terms, taskTerminals, pendingUpdates, status, prev, cur, body,
                   early, nFail, failed>>

\* line 74: getTasks rejects, initTerminals rejects
GetTasksFail(p) ==
    /\ pc[p] = "getTasks"
    /\ Quiescent
    /\ pc' = [pc EXCEPT ![p] = "threw"]
    /\ Fails(p, "getTasks", NoTask)
    /\ UNCHANGED <<nClose, server, terms, taskTerminals, pendingUpdates, status, prev, tasks, idx,
                   cur, ref, body, early>>

\* lines 77-79
SkipClosedM(task) == FALSE

SkipClosed(task) == task.state = "CLOSED"

\* lines 82-83: `if (!terminal)`
MustCreateM(terminal) == TRUE

MustCreate(terminal) == terminal = 0

\* line 96: IBaseTerminalServer.validateId(terminal.terminalId)
validateIdM(terminal) == TRUE

validateId(terminal) == terms[terminal].valid

\* lines 99-101: `ref = terminal`, at the end of an iteration that did not throw
NextRefM(p, terminal) == ref

NextRef(p, terminal) == [ref EXCEPT ![p] = terminal]

\* one iteration of the loop of lines 76-105, up to its first await;
\* past the last task, line 106 enters updateTerminals(tasks)
InitStep(p) ==
    /\ pc[p] = "initLoop"
    /\ IF idx[p] > Len(tasks[p])
       THEN /\ pc' = [pc EXCEPT ![p] = "updLoop"]
            /\ idx' = [idx EXCEPT ![p] = 1]
            /\ UNCHANGED <<cur, ref>>
       ELSE LET task == tasks[p][idx[p]]
                id == toTerminalId(task.id)
                terminal == taskTerminals[id]
            IN  IF SkipClosed(task)
                THEN Advance(p) /\ UNCHANGED <<pc, cur, ref>>
                ELSE IF MustCreate(terminal)
                THEN /\ pc' = [pc EXCEPT ![p] = "awaitNew"]
                     /\ UNCHANGED <<idx, cur, ref>>
                ELSE IF ~validateId(terminal)
                THEN /\ pc' = [pc EXCEPT ![p] = "awaitRestart"]
                     /\ cur' = [cur EXCEPT ![p] = terminal]
                     /\ UNCHANGED <<idx, ref>>
                ELSE /\ ref' = NextRef(p, terminal)
                     /\ Advance(p)
                     /\ UNCHANGED <<pc, cur>>
    /\ UNCHANGED <<nClose, server, terms, taskTerminals, pendingUpdates, status, prev, tasks, body,
                   early, nFail, failed>>

\* lines 84-90: newTerminal resolves (the widget was created and
\* onDidCreateTerminal fired); terminal.start() is called
NewTerminalOk(p) ==
    /\ pc[p] = "awaitNew"
    /\ Quiescent
    /\ LET id == toTerminalId(tasks[p][idx[p]].id) IN
        /\ terms' = Append(terms, NewWidget(id, "gitpod-task", FALSE, p))
        /\ taskTerminals' = onDidCreateTerminal(taskTerminals, terms', Len(terms'))
        /\ cur' = [cur EXCEPT ![p] = Len(terms')]
    /\ pc' = [pc EXCEPT ![p] = "awaitStart"]
    /\ UNCHANGED <<nClose, server, pendingUpdates, status, prev, tasks, idx, ref, body, early, nFail, failed>>

\* lines 102-104 and 136-138: the catch blocks end the iteration of the
\* failing task; the loop goes on with the next task
CatchNextM(p) == Len(tasks[p]) + 1

CatchNextSameM(p) == idx[p]

CatchNext(p) == idx[p] + 1

\* lines 102-104: the catch of the loop body of initTerminals
Caught(p, call) ==
    /\ pc' = [pc EXCEPT ![p] = "initLoop"]
    /\ cur' = [cur EXCEPT ![p] = 0]
    /\ idx' = [idx EXCEPT ![p] = CatchNext(p)]
    /\ Fails(p, call, tasks[p][idx[p]])

NewTerminalFail(p) ==
    /\ pc[p] = "awaitNew"
    /\ Quiescent
    /\ Caught(p, "newTerminal")
    /\ UNCHANGED <<nClose, server, terms, taskTerminals, pendingUpdates, status, prev, tasks, ref,
                   body, early>>

Started(T, h) == [T EXCEPT ![h].valid = TRUE, ![h].starts = T[h].starts + 1]

\* lines 90-101: start resolves; activateTerminal places the widget
\* (activated) or throws
StartOk(p, activated) ==
    /\ pc[p] = "awaitStart"
    /\ Quiescent
    /\ LET terminal == cur[p] IN
        /\ terms' = IF activated
                    THEN [Started(terms, terminal) EXCEPT ![terminal].placed = TRUE,
                                                          ![terminal].anchor = ref[p]]
                    ELSE Started(terms, terminal)
        /\ ref' = IF activated THEN NextRef(p, terminal) ELSE ref
    /\ IF activated
       THEN Advance(p) /\ UNCHANGED <<nFail, failed>>
       ELSE /\ idx' = [idx EXCEPT ![p] = CatchNext(p)]
            /\ Fails(p, "activateTerminal", tasks[p][idx[p]])
    /\ pc' = [pc EXCEPT ![p] = "initLoop"]
    /\ cur' = [cur EXCEPT ![p] = 0]
    /\ UNCHANGED <<nClose, server, taskTerminals, pendingUpdates, status, prev, tasks, body, early>>

StartFail(p) ==
    /\ pc[p] \in {"awaitStart", "awaitRestart"}
    /\ Quiescent
    /\ Caught(p, "start")
    /\ UNCHANGED <<nClose, server, terms, taskTerminals, pendingUpdates, status, prev, tasks, ref,
                   body, early>>

\* lines 96-101: a registered terminal with a stale id is started again
RestartOk(p) ==
    /\ pc[p] = "awaitRestart"
    /\ Quiescent
    /\ terms' = Started(terms, cur[p])
    /\ ref' = NextRef(p, cur[p])
    /\ pc' = [pc EXCEPT ![p] = "initLoop"]
    /\ cur' = [cur EXCEPT ![p] = 0]
    /\ Advance(p)
    /\ UNCHANGED <<nClose, server, taskTerminals, pendingUpdates, status, prev, tasks, body, early,
                   nFail, failed>>

\* line 109: `!this.terminals.all.length`; `terminals.all` is the live widgets
NoTerminalsM(T) == T = <<>>

NoTerminals(T) == Live(T) = {}

\* lines 108-109: updateTerminals has returned
AfterUpdate(p) ==
    /\ pc[p] = "awaitUpd"
    /\ pc' = [pc EXCEPT ![p] = IF NoTerminals(terms) THEN "awaitFallback" ELSE "done"]
    /\ UNCHANGED <<nClose, server, terms, taskTerminals, pendingUpdates, status, prev, tasks, idx,
                   cur, ref, body, early, nFail, failed>>

\* lines 110-112: a plain terminal is created, started and opened
FallbackOk(p) ==
    /\ pc[p] = "awaitFallback"
    /\ Quiescent
    /\ LET T == Append(terms, NewWidget("terminal-0", "plain", FALSE, p))
           h == Len(T)
       IN  /\ terms' = [Started(T, h) EXCEPT ![h].placed = TRUE]
           /\ taskTerminals' = onDidCreateTerminal(taskTerminals, T, h)
    /\ pc' = [pc EXCEPT ![p] = "done"]
    /\ UNCHANGED <<nClose, server, pendingUpdates, status, prev, tasks, idx, cur, ref, body, early,
                   nFail, failed>>

FallbackFail(p) ==
    /\ pc[p] = "awaitFallback"
    /\ Quiescent
    /\ pc' = [pc EXCEPT ![p] = "threw"]
    /\ Fails(p, "newTerminal", NoTask)
    /\ UNCHANGED <<nClose, server, terms, taskTerminals, pendingUpdates, status, prev, tasks, idx,
                   cur, ref, body, early>>

\* ---- updateTerminals, lines 116-140 ---------------------------------------
\* lines 124-127: the terminal of a CLOSED task
ClosedTaskEffectM(terminal) == WidgetClose(terminal, "reconciler")

ClosedTaskEffectN(terminal) == UNCHANGED <<terms, taskTerminals>>

ClosedTaskEffect(terminal) == WidgetDispose(terminal, "reconciler")

\* line 128: neither RUNNING nor already attached passes
SkipAttachM(task, terminal) == task.state # "RUNNING"

SkipAttach(task, terminal) ==
    task.state # "RUNNING" \/ terms[terminal].remoteTerminal # NoRemote

\* lines 131-135: the latch is set, then the attach command is issued
AttachLateM(T, terminal, task) ==
    [T EXCEPT ![terminal].cmds = Append(T[terminal].cmds, task.terminal)]

AttachM(T, terminal, task) ==
    [T EXCEPT ![terminal].remoteTerminal = task.terminal,
              ![terminal].sets = T[terminal].sets + 1]

Attach(T, terminal, task) ==
    [T EXCEPT ![terminal].remoteTerminal = task.terminal,
              ![terminal].sets = T[terminal].sets + 1,
              ![terminal].cmds = Append(T[terminal].cmds, task.terminal)]

\* line 132: `await terminal.executeCommand(...)`; the pass is suspended at
\* the task until the call settles
AttachNextM(p) == [pc |-> "updLoop", idx |-> idx[p] + 1]

AttachNext(p) == [pc |-> "awaitExec", idx |-> idx[p]]

\* the continuation of `await this.updateTerminals(tasks)` (line 106) or the
\* end of a push pass
AfterLoopPc(p) == IF body[p] = "init" THEN "awaitUpd" ELSE "done"

\* one iteration of the loop of lines 117-139, up to its await
UpdStep(p) ==
    /\ pc[p] = "updLoop"
    /\ IF idx[p] > Len(tasks[p])
       THEN /\ pc' = [pc EXCEPT ![p] = AfterLoopPc(p)]
            /\ UNCHANGED <<terms, taskTerminals, idx, cur>>
       ELSE LET task == tasks[p][idx[p]]
                id == toTerminalId(task.id)
                terminal == taskTerminals[id]
            IN  IF terminal = 0
                THEN Advance(p) /\ UNCHANGED <<terms, taskTerminals, pc, cur>>
                ELSE IF task.state = "CLOSED"
                THEN /\ ClosedTaskEffect(terminal)
                     /\ Advance(p)
                     /\ UNCHANGED <<pc, cur>>
                ELSE IF SkipAttach(task, terminal)
                THEN Advance(p) /\ UNCHANGED <<terms, taskTerminals, pc, cur>>
                ELSE /\ terms' = Attach(terms, terminal, task)
                     /\ cur' = [cur EXCEPT ![p] = terminal]
                     /\ pc' = [pc EXCEPT ![p] = AttachNext(p).pc]
                     /\ idx' = [idx EXCEPT ![p] = AttachNext(p).idx]
                     /\ UNCHANGED taskTerminals
    /\ UNCHANGED <<nClose, server, pendingUpdates, status, prev, tasks, ref, body, early, nFail, failed>>

\* lines 132-138: executeCommand settles; a rejection is caught and logged
ExecSettles(p, ok) ==
    /\ pc[p] = "awaitExec"
    /\ Quiescent
    /\ pc' = [pc EXCEPT ![p] = "updLoop"]
    /\ cur' = [cur EXCEPT ![p] = 0]
    /\ IF ok
       THEN Advance(p) /\ UNCHANGED <<nFail, failed>>
       ELSE /\ idx' = [idx EXCEPT ![p] = CatchNext(p)]
            /\ Fails(p, "executeCommand", tasks[p][idx[p]])
    /\ UNCHANGED <<nClose, server, terms, taskTerminals, pendingUpdates, status, prev, tasks, ref,
                   body, early>>

ExecOk(p) == ExecSettles(p, TRUE)

ExecFail(p) == ExecSettles(p, FALSE)

Next ==
    \/ \E i \in 1 .. Len(TaskSeq), valid \in BOOLEAN : RestoreTerminal(i, valid)
    \/ \E h \in Handles : UserClose(h)
    \/ \E h \in Handles : ExternalDispose(h)
    \/ OnDidInitializeLayout
    \/ \E t \in TaskIds, s \in States : OnDidChange(t, s)
    \/ \E p \in Passes : StartPass(p)
    \/ \E p \in Passes : Settle(p)
    \/ \E p \in Passes : GetTasksOk(p)
    \/ \E p \in Passes : GetTasksFail(p)
    \/ \E p \in Passes : InitStep(p)
    \/ \E p \in Passes : NewTerminalOk(p)
    \/ \E p \in Passes : NewTerminalFail(p)
    \/ \E p \in Passes, activated \in BOOLEAN : StartOk(p, activated)
    \/ \E p \in Passes : StartFail(p)
    \/ \E p \in Passes : RestartOk(p)
    \/ \E p \in Passes : AfterUpdate(p)
    \/ \E p \in Passes : FallbackOk(p)
    \/ \E p \in Passes : FallbackFail(p)
    \/ \E p \in Passes : UpdStep(p)
    \/ \E p \in Passes : ExecOk(p)
    \/ \E p \in Passes : ExecFail(p)

Spec == Init /\ [][Next]_vars

\* a step of pass p: its then-callback runs, an awaited call settles one
\* way or the other, a synchronous segment runs, its promise settles
PassStep(p) ==
    \/ StartPass(p)
    \/ Settle(p)
    \/ GetTasksOk(p)
    \/ GetTasksFail(p)
    \/ InitStep(p)
    \/ NewTerminalOk(p)
    \/ NewTerminalFail(p)
    \/ \E activated \in BOOLEAN : StartOk(p, activated)
    \/ StartFail(p)
    \/ RestartOk(p)
    \/ AfterUpdate(p)
    \/ FallbackOk(p)
    \/ FallbackFail(p)
    \/ UpdStep(p)
    \/ ExecOk(p)
    \/ ExecFail(p)

\* the backend when the layout is initialised before any task runs; RUNNING
\* and CLOSED are then reached through pushes
LiveInit == Init /\ \A t \in TaskIds : server[t] \in {"ABSENT", "OPENING"}

\* the event loop runs every ready job and every awaited collaborator call
\* eventually settles (passes never overlap, so one condition covers them all)
LiveSpec == LiveInit /\ [][Next]_vars /\ WF_vars(\E p \in Passes : PassStep(p))

\* ---- properties -------------------------------------------------------------
TaskTerms(t) == {h \in Handles : terms[h].id = "gitpod-task-terminal:" \o t}

LiveTaskTerms(t) == {h \in TaskTerms(t) : ~terms[h].disposed}

Registered(t) == taskTerminals["gitpod-task-terminal:" \o t]

HasSettled(p) == status[p] \in {"fulfilled", "rejected"}

HasBegun(p) == status[p] \in {"running", "fulfilled", "rejected"}

AwaitingCall(p) == pc[p] \in {"awaitNew", "awaitStart", "awaitRestart", "awaitExec"}

\* C1: passes run in submission order and never overlap: a pass has begun
\* only if every pass submitted before it has settled, and a pass that has
\* not begun is at no position of its body.
C1_PassesSerialised ==
    \A q \in Passes :
        /\ HasBegun(q) => \A p \in Passes : p < q => HasSettled(p)
        /\ ~HasBegun(q) => pc[q] = "idle"

\* a push arrived while bootstrap was suspended creating a terminal, a second
\* one is queued behind it, and the first push's pass is running
C1_Witness ==
    /\ MaxPushes >= 2
    /\ early[1] # "none"
    /\ status[0] = "fulfilled"
    /\ status[1] = "running"
    /\ status[2] = "queued"

\* C2: for every terminal the attach command is issued at most once and the
\* latch remoteTerminal is assigned at most once, over all passes.
C2_AttachOnce ==
    \A h \in Handles :
        /\ Len(terms[h].cmds) <= 1
        /\ terms[h].sets <= 1
        /\ (terms[h].sets = 1 => terms[h].remoteTerminal # NoRemote)

\* a push pass is about to process a RUNNING task whose terminal already has the latch
C2_Witness ==
    \E p \in Passes :
        /\ p >= 1
        /\ pc[p] = "updLoop"
        /\ idx[p] <= Len(tasks[p])
        /\ tasks[p][idx[p]].state = "RUNNING"
        /\ Registered(tasks[p][idx[p]].id) # 0
        /\ terms[Registered(tasks[p][idx[p]].id)].remoteTerminal # NoRemote

\* C3: no newTerminal, start or attach call is ever made for a task whose
\* state is CLOSED.
C3_NoTerminalForClosed ==
    \A p \in Passes : AwaitingCall(p) => tasks[p][idx[p]].state # "CLOSED"

\* bootstrap has finished over a snapshot holding a CLOSED task that never had a terminal
C3_Witness ==
    /\ pc[0] = "done"
    /\ \E i \in 1 .. Len(tasks[0]) :
        /\ tasks[0][i].state = "CLOSED"
        /\ TaskTerms(tasks[0][i].id) = {}

NoStaleEntry ==
    \A id \in TerminalIds :
        taskTerminals[id] # 0 => ~terms[taskTerminals[id]].disposed

\* C4: the registry never holds a disposed terminal: the step that disposes
\* a task terminal (by any trigger) leaves its identity unresolved, and
\* after every step no registry entry names a disposed terminal.
C4_NoDisposedInRegistry ==
    [][/\ \A h \in Handles :
            (is(terms[h]) /\ ~terms[h].disposed /\ terms'[h].disposed)
                => taskTerminals'[terms[h].id] = 0
       /\ NoStaleEntry']_vars

\* one terminal was disposed by the reconciler and another from outside
C4_Witness ==
    \E h1, h2 \in Handles :
        /\ terms[h1].disposedBy = "reconciler"
        /\ terms[h2].disposedBy \in {"user", "external"}

\* C5: at most one live terminal exists per task identity, and newTerminal is
\* never in flight for an identity that has a live terminal.
C5_OneLiveTerminalPerTask ==
    /\ \A t \in TaskIds : Cardinality(LiveTaskTerms(t)) <= 1
    /\ \A p \in Passes :
        pc[p] = "awaitNew" => LiveTaskTerms(tasks[p][idx[p]].id) = {}

\* bootstrap has completed over a non-CLOSED task whose restored terminal
\* was live and registered, with a push received meanwhile, and made no second one
C5_Witness ==
    /\ pc[0] = "done"
    /\ status[1] = "queued"
    /\ \E i \in 1 .. Len(tasks[0]) :
        /\ tasks[0][i].state # "CLOSED"
        /\ Cardinality(TaskTerms(tasks[0][i].id)) = 1
        /\ \E h \in LiveTaskTerms(tasks[0][i].id) :
            terms[h].createdBy = -1 /\ Registered(tasks[0][i].id) = h

\* task i of the bootstrap snapshot is RUNNING, had no terminal, and nothing
\* failed or was closed
C6_Case(i) ==
    /\ tasks[0][i].state = "RUNNING"
    /\ nFail = 0
    /\ \A h \in TaskTerms(tasks[0][i].id) :
            terms[h].createdBy # -1 /\ ~terms[h].disposed

\* C6: when bootstrap completes, a RUNNING task of the snapshot that had no
\* terminal has exactly one terminal, named "gitpod-task-terminal:" + id,
\* started once, with exactly one attach command for the task's remote
\* terminal and the latch equal to it.
C6_BootstrapRunning ==
    pc[0] = "done" =>
        \A i \in 1 .. Len(tasks[0]) :
            C6_Case(i) =>
                /\ Cardinality(TaskTerms(tasks[0][i].id)) = 1
                /\ \A h \in TaskTerms(tasks[0][i].id) :
                    /\ Registered(tasks[0][i].id) = h
                    /\ terms[h].createdBy = 0
                    /\ terms[h].starts = 1
                    /\ terms[h].placed
                    /\ terms[h].cmds = <<tasks[0][i].terminal>>
                    /\ terms[h].remoteTerminal = tasks[0][i].terminal
                    /\ tasks[0][i].terminal # NoRemote

C6_Witness ==
    /\ pc[0] = "done"
    /\ \E i \in 1 .. Len(tasks[0]) : C6_Case(i)

\* C7: when a pass completes, no task that is CLOSED in its list has a
\* registered or live terminal; and a terminal whose creation was in flight
\* when a push arrived is registered when bootstrap completes (nothing having
\* failed or been closed), so that the push's pass finds it.
C7_ClosedDisposedByEndOfPass ==
    /\ \A p \in Passes :
        pc[p] = "done" =>
            \A i \in 1 .. Len(tasks[p]) :
                tasks[p][i].state = "CLOSED" =>
                    /\ Registered(tasks[p][i].id) = 0
                    /\ LiveTaskTerms(tasks[p][i].id) = {}
    /\ \A p \in Passes :
        (pc[0] = "done" /\ early[p] # "none" /\ nFail = 0 /\ nClose = 0)
            => Registered(early[p]) # 0

\* a push reporting t CLOSED arrived while bootstrap was creating t's
\* terminal; its pass has completed and disposed that terminal
C7_Witness ==
    \E p \in Passes :
        /\ p >= 1
        /\ pc[p] = "done"
        /\ early[p] # "none"
        /\ \E i \in 1 .. Len(tasks[p]) :
            /\ tasks[p][i].id = early[p]
            /\ tasks[p][i].state = "CLOSED"
        /\ \E h \in TaskTerms(early[p]) :
            terms[h].createdBy = 0 /\ terms[h].disposedBy = "reconciler"

UserClosing(h) == terms[h].disposedBy = "none" /\ terms'[h].disposedBy = "user"

\* C8: the step in which the user closes a task terminal sends a close
\* request exactly when the latch is set at that moment, naming the latch;
\* otherwise it records the diagnostic; either way the registry entry is gone.
C8_CloseRequestIffLatch ==
    [][\A h \in Handles :
        UserClosing(h) =>
            /\ terms'[h].closeReq = terms[h].remoteTerminal
            /\ terms'[h].diag = (terms[h].remoteTerminal = NoRemote)
            /\ taskTerminals'[terms[h].id] = 0]_vars

\* the user has closed an attached terminal and the request named its remote terminal
C8_Witness ==
    \E h \in Handles :
        /\ terms[h].disposedBy = "user"
        /\ terms[h].remoteTerminal # NoRemote
        /\ terms[h].closeReq = terms[h].remoteTerminal

\* C9: a terminal disposed by the reconciler for a CLOSED task sends no
\* close request (and records no diagnostic); close requests come only from
\* the user-close path.
C9_NoCloseRequestOnDisposal ==
    \A h \in Handles :
        /\ terms[h].disposedBy = "reconciler"
            => (terms[h].closeReq = NoRemote /\ ~terms[h].diag)
        /\ terms[h].closeReq # NoRemote => terms[h].disposedBy = "user"

\* an attached terminal has been disposed by the reconciler
C9_Witness ==
    \E h \in Handles :
        /\ terms[h].disposedBy = "reconciler"
        /\ terms[h].remoteTerminal # NoRemote

\* C10 as stated: a completed push pass (nothing failed, nothing closed) has
\* a registered terminal for every non-CLOSED task of its list, attached
\* when the task is RUNNING.
C10_PushCreates ==
    \A p \in Passes :
        (p >= 1 /\ pc[p] = "done" /\ nFail = 0 /\ nClose = 0) =>
            \A i \in 1 .. Len(tasks[p]) :
                tasks[p][i].state # "CLOSED" =>
                    /\ Registered(tasks[p][i].id) # 0
                    /\ tasks[p][i].state = "RUNNING" =>
                        terms[Registered(tasks[p][i].id)].remoteTerminal # NoRemote

\* C10 amended: a push pass never creates a terminal (task terminals come
\* from layout restoration or the bootstrap pass only, and a push pass is
\* never at a position of initTerminals); it attaches a RUNNING task that
\* has a registered terminal.
C10_PushNeverCreates ==
    /\ \A h \in Handles : terms[h].createdBy \in {-1, 0}
    /\ \A p \in Passes :
        p >= 1 =>
            /\ pc[p] \in {"idle", "updLoop", "awaitExec", "done", "settled"}
            /\ pc[p] = "done" =>
                \A i \in 1 .. Len(tasks[p]) :
                    (tasks[p][i].state = "RUNNING" /\ Registered(tasks[p][i].id) # 0)
                        => terms[Registered(tasks[p][i].id)].remoteTerminal
                                = tasks[p][i].terminal

\* a push pass has completed over a non-CLOSED task that never had a terminal
C10_Witness ==
    \E p \in Passes :
        /\ p >= 1
        /\ pc[p] = "done"
        /\ \E i \in 1 .. Len(tasks[p]) :
            /\ tasks[p][i].state # "CLOSED"
            /\ TaskTerms(tasks[p][i].id) = {}

\* a call made for task t has failed
FailedFor(t) == \E f \in failed : f[2] = t

\* task i of the list of pass p was reached by no failure and no disposal
Undisturbed(p, i) ==
    /\ ~FailedFor(tasks[p][i].id)
    /\ \A h \in TaskTerms(tasks[p][i].id) : ~terms[h].disposed

\* what a completed pass has done for task i of its list
Processed(p, i) ==
    LET task == tasks[p][i] IN
        /\ (body[p] = "init" /\ task.state # "CLOSED") =>
                /\ Cardinality(TaskTerms(task.id)) = 1
                /\ Registered(task.id) # 0
                /\ terms[Registered(task.id)].valid
                /\ terms[Registered(task.id)].createdBy = 0
                        => (terms[Registered(task.id)].starts = 1
                            /\ terms[Registered(task.id)].placed)
        /\ (task.state = "RUNNING" /\ Registered(task.id) # 0) =>
                /\ terms[Registered(task.id)].remoteTerminal = task.terminal
                /\ terms[Registered(task.id)].cmds = <<task.terminal>>

GetTasksFailed == <<"getTasks", "", 0, "">> \in failed

\* C12: no promise of the chain is ever rejected, so no queued pass is
\* skipped: a pass that has settled has run its body; and when getTasks has
\* failed, bootstrap stops there, no terminal is created by it, and its
\* promise (the one onDidInitializeLayout returns) is fulfilled.
C12_ChainNeverRejected ==
    /\ \A p \in Passes :
        /\ status[p] # "rejected"
        /\ status[p] = "queued" => status[prev[p]] # "rejected"
        /\ HasSettled(p) => body[p] = (IF p = 0 THEN "init" ELSE "update")
    /\ GetTasksFailed =>
        /\ \A h \in Handles : terms[h].createdBy # 0
        /\ pc[0] \in {"threw", "settled"}
        /\ pc[0] = "settled" => status[0] = "fulfilled"

\* getTasks failed, the bootstrap promise is fulfilled, and the pass of a
\* push received meanwhile has run to its end
C12_Witness ==
    /\ GetTasksFailed
    /\ status[0] = "fulfilled"
    /\ \E p \in Passes : p >= 1 /\ status[p] = "fulfilled" /\ body[p] = "update"

\* the generic terminals
Plain == {h \in Handles : ~is(terms[h])}

\* C13: at most one generic terminal ever exists; it is created by the
\* bootstrap pass only, after the last task of a fetched snapshot, opened,
\* and only when no terminal of any kind is live (every other widget is
\* disposed); bootstrap does not complete with zero live terminals; and no
\* push pass is ever at the fallback.
C13_Fallback ==
    /\ Cardinality(Plain) <= 1
    /\ \A h \in Plain :
        /\ terms[h].createdBy = 0
        /\ terms[h].placed
        /\ ~terms[h].disposed
        /\ \A g \in Handles : g # h => terms[g].disposed
    /\ \A p \in Passes :
        pc[p] = "awaitFallback" =>
            /\ p = 0
            /\ idx[p] > Len(tasks[p])
            /\ Live(terms) = {}
            /\ Plain = {}
    /\ pc[0] = "done" => Live(terms) # {}

\* bootstrap has completed with the generic terminal, after the only
\* creation of a task terminal failed
C13_Witness ==
    /\ pc[0] = "done"
    /\ Plain # {}
    /\ tasks[0] # <<>>
    /\ failed # {}

\* C14 as stated: a pass is never suspended on an attach call while tasks of
\* its list are still to be processed.
C14_FireAndForget ==
    \A p \in Passes : ~(pc[p] = "awaitExec" /\ idx[p] < Len(tasks[p]))

\* C14 amended: the attach call is awaited. The step that issues an attach
\* command suspends the pass at that task; while the call is in flight the
\* reconciler issues no command, sets no latch and disposes nothing; and the
\* pass reaches the next task only by the step in which the call settles.
C14_AttachAwaited ==
    [][/\ \A h \in Handles :
            Len(terms'[h].cmds) > Len(terms[h].cmds) =>
                \E p \in Passes :
                    /\ pc[p] = "updLoop"
                    /\ pc'[p] = "awaitExec"
                    /\ cur'[p] = h
                    /\ idx'[p] = idx[p]
       /\ \A p \in Passes :
            pc[p] = "awaitExec" =>
                /\ idx'[p] # idx[p] => (idx'[p] = idx[p] + 1 /\ pc'[p] = "updLoop")
                /\ pc'[p] \in {"awaitExec", "updLoop"}
                /\ \A h \in Handles :
                    /\ terms'[h].cmds = terms[h].cmds
                    /\ terms'[h].remoteTerminal = terms[h].remoteTerminal
                    /\ terms'[h].disposedBy = "reconciler"
                            => terms[h].disposedBy = "reconciler"]_vars

\* a pass is suspended on the attach call of one task while a later RUNNING
\* task of its list, with a registered terminal, is still unattached
C14_Witness ==
    \E p \in Passes :
        /\ pc[p] = "awaitExec"
        /\ \E i \in 1 .. Len(tasks[p]) :
            /\ i > idx[p]
            /\ tasks[p][i].state = "RUNNING"
            /\ Registered(tasks[p][i].id) # 0
            /\ terms[Registered(tasks[p][i].id)].cmds = <<>>

\* C15: in every state, a terminal in which an attach command has been
\* issued (in flight, completed or failed) has its latch equal to the remote
\* terminal the command names; and the step in which the user closes such a
\* terminal sends the close request for that remote terminal.
C15_LatchBeforeAttach ==
    [][/\ \A h \in 1 .. Len(terms') :
            terms'[h].cmds # <<>> => terms'[h].remoteTerminal = terms'[h].cmds[1]
       /\ \A h \in Handles :
            (UserClosing(h) /\ terms[h].cmds # <<>>) =>
                terms'[h].closeReq = terms[h].cmds[1]]_vars

\* the user has closed a terminal whose attach call is still in flight, and
\* the close request named the remote terminal of the command
C15_Witness ==
    \E p \in Passes :
        /\ pc[p] = "awaitExec"
        /\ terms[cur[p]].disposedBy = "user"
        /\ terms[cur[p]].cmds # <<>>
        /\ terms[cur[p]].closeReq = terms[cur[p]].cmds[1]

\* the failed step f has been attempted again
Retried(f) ==
    \E h \in TaskTerms(f[2]) :
        \/ f[1] = "executeCommand" /\ Len(terms[h].cmds) >= 2
        \/ f[1] # "executeCommand" /\ terms[h].createdBy > f[3]
        \/ f[1] = "start" /\ terms[h].starts >= 1
        \/ f[1] = "activateTerminal" /\ terms[h].placed

\* C16 as stated: when a pass completes whose list presents, in the same
\* state, a task for which a step failed in an earlier pass, the failed
\* step has been attempted again.
C16_RetriedByLaterPush ==
    \A p \in Passes :
        pc[p] = "done" =>
            \A f \in failed : \A i \in 1 .. Len(tasks[p]) :
                (f[3] < p /\ f[2] = tasks[p][i].id /\ f[4] = tasks[p][i].state)
                    => Retried(f)

\* C16 amended: a failed step is never attempted again, neither within the
\* failing pass nor by a later push: after a failed newTerminal the task gets
\* no terminal, after a failed start its terminal is never started, after a
\* failed activateTerminal it is never placed, and after a failed attach
\* the command is not issued again (the latch stays set).
C16_NeverRetried ==
    \A f \in failed : \A h \in TaskTerms(f[2]) :
        /\ f[1] = "newTerminal" => terms[h].createdBy = -1
        /\ f[1] = "start" => terms[h].starts = 0
        /\ f[1] = "activateTerminal" => ~terms[h].placed
        /\ f[1] = "executeCommand" =>
                (Len(terms[h].cmds) <= 1 /\
                 (terms[h].cmds # <<>> => terms[h].remoteTerminal # NoRemote))
        /\ terms[h].createdBy <= f[3]

\* a push pass has completed over a task, presented in the same state, for
\* which a step had failed in an earlier pass
C16_Witness ==
    \E p \in Passes :
        /\ pc[p] = "done"
        /\ \E f \in failed : \E i \in 1 .. Len(tasks[p]) :
            /\ f[3] < p
            /\ f[2] = tasks[p][i].id
            /\ f[4] = tasks[p][i].state

\* the task terminals the bootstrap pass has placed
PlacedByBootstrap ==
    {h \in Handles : is(terms[h]) /\ terms[h].createdBy = 0 /\ terms[h].placed}

\* the position of the task of terminal h in the bootstrap snapshot
PosOf(h) ==
    CHOOSE i \in 1 .. Len(tasks[0]) : toTerminalId(tasks[0][i].id) = terms[h].id

\* the task terminal placed by the bootstrap pass before h, 0 when h is the first
PrevPlaced(h) ==
    LET before == {g \in PlacedByBootstrap : g < h} IN
        IF before = {} THEN 0
        ELSE CHOOSE g \in before : \A k \in before : k <= g

\* C17 as stated: every terminal the bootstrap pass has placed is anchored
\* after the terminal that pass placed before it, the first one having no
\* anchor.
C17_AnchoredAfterPlaced ==
    \A h \in PlacedByBootstrap : terms[h].anchor = PrevPlaced(h)

\* the iteration of task t in the loop of initTerminals threw
InitFailed(t) ==
    \E f \in failed : f[2] = t /\ f[3] = 0 /\ f[1] # "executeCommand"

\* the terminal the bootstrap pass created for task t or, failing that, the
\* restored one it revisited
TermOf(t) ==
    IF \E h \in TaskTerms(t) : terms[h].createdBy = 0
    THEN CHOOSE h \in TaskTerms(t) : terms[h].createdBy = 0
    ELSE CHOOSE h \in TaskTerms(t) : TRUE

\* the anchor for position j: the terminal of the nearest earlier task of the
\* snapshot that is not CLOSED and whose iteration did not throw
ExpectedAnchor(j) ==
    LET before == {i \in 1 .. j - 1 :
                    tasks[0][i].state # "CLOSED" /\ ~InitFailed(tasks[0][i].id)}
    IN  IF before = {} THEN 0
        ELSE TermOf(tasks[0][CHOOSE i \in before : \A k \in before : k <= i].id)

\* C17 amended: while the bootstrap pass runs, the terminals it has created
\* follow snapshot order, and each placed one is anchored after the terminal
\* of the nearest earlier task of the snapshot whose iteration completed
\* (newly placed, or pre-existing and revisited), with no anchor only when
\* there is no such task.
C17_AnchoredAfterPrevious ==
    status[0] = "running" =>
        /\ \A h \in PlacedByBootstrap : terms[h].anchor = ExpectedAnchor(PosOf(h))
        /\ \A g, h \in Handles :
            (g < h /\ is(terms[g]) /\ is(terms[h])
                /\ terms[g].createdBy = 0 /\ terms[h].createdBy = 0)
                    => PosOf(g) < PosOf(h)

\* the first terminal the bootstrap pass placed is anchored after a restored
\* terminal the pass had revisited
C17_Witness ==
    /\ status[0] = "running"
    /\ \E h \in PlacedByBootstrap :
        /\ PrevPlaced(h) = 0
        /\ terms[h].anchor # 0
        /\ terms[terms[h].anchor].createdBy = -1

\* the bootstrap pass is about to visit a task that is not CLOSED and whose
\* terminal h is registered
Revisits(h) ==
    /\ pc[0] = "initLoop"
    /\ idx[0] <= Len(tasks[0])
    /\ tasks[0][idx[0]].state # "CLOSED"
    /\ Registered(tasks[0][idx[0]].id) = h

\* C18: the step in which the bootstrap pass revisits a registered terminal
\* changes no widget and creates none: with a valid id the pass goes on to
\* the next task, with an invalid id it suspends on start() of that same
\* terminal; newTerminal is never in flight for a registered identity; and
\* a pre-existing terminal is never placed, and started at most once, only
\* by that restart.
C18_RevisitedInPlace ==
    [][/\ \A h \in Handles :
            Revisits(h) =>
                /\ terms' = terms
                /\ taskTerminals' = taskTerminals
                /\ terms[h].valid => (pc'[0] = "initLoop" /\ idx'[0] = idx[0] + 1)
                /\ ~terms[h].valid =>
                        (pc'[0] = "awaitRestart" /\ cur'[0] = h /\ idx'[0] = idx[0])
       /\ \A p \in Passes :
            pc'[p] = "awaitNew" => taskTerminals'[toTerminalId(tasks'[p][idx'[p]].id)] = 0
       /\ \A h \in Handles :
            terms[h].createdBy = -1 =>
                /\ ~terms'[h].placed
                /\ terms'[h].starts <= 1
                /\ terms'[h].starts # terms[h].starts =>
                        (~terms[h].valid /\ pc[0] = "awaitRestart" /\ cur[0] = h)]_vars

\* bootstrap has completed after restarting a restored terminal with a stale
\* id in place: it is still the only terminal of its identity, and not placed
C18_Witness ==
    /\ pc[0] = "done"
    /\ \E h \in Handles :
        /\ terms[h].createdBy = -1
        /\ terms[h].starts = 1
        /\ ~terms[h].placed
        /\ \A g \in Handles : terms[g].id = terms[h].id => g = h

\* no push is waiting for its pass or in the middle of it
Drained ==
    \A p \in Passes :
        p >= 1 => (status[p] = "unsubmitted" \/ (status[p] = "fulfilled" /\ body[p] = "update"))

\* C19: every push delivered to onDidChange eventually has its pass run
\* and completed: again and again the queue is drained (the status of a
\* pass only moves forward, so a queued push ends up fulfilled, its body run).
C19_EveryPushCompletes == []<>Drained

\* two pushes were queued while bootstrap was suspended creating a terminal,
\* and the pass of the second has run to its end after the first
C19_Witness ==
    /\ MaxPushes >= 2
    /\ status[0] = "fulfilled"
    /\ status[1] = "fulfilled"
    /\ pc[2] = "done"
    /\ early[2] # "none"

\* pass p calls activateTerminal in this step: start() has resolved
Activates(p) ==
    /\ pc[p] = "awaitStart"
    /\ terms'[cur[p]].starts > terms[cur[p]].starts

\* C20: the reconciler never calls activateTerminal on a disposed terminal
\* nor with a disposed terminal as the anchor `ref`, and never issues the
\* attach command in a disposed terminal.
C20_NeverOnDisposed ==
    [][/\ \A p \in Passes :
            Activates(p) =>
                /\ ~terms[cur[p]].disposed
                /\ ref[p] # 0 => ~terms[ref[p]].disposed
       /\ \A h \in Handles :
            Len(terms'[h].cmds) > Len(terms[h].cmds) => ~terms[h].disposed]_vars

====
